---- MODULE Spec2Model ----
(***************************************************************************)
(* ADS light and switch entities (custom_components/ads_extended).         *)
(*                                                                         *)
(* One entity is modelled at a time: `kind` says whether the constructed   *)
(* entity is an AdsLight or an AdsSwitch.  Python values are tagged        *)
(* records so that values of different Python types can be compared:       *)
(*   element  [t, v, s]    t = Python type, v = number, s = characters     *)
(*   sample   [type, items]  the object held in a _state_dict slot         *)
(*   option   [has, v]     None is has = FALSE                             *)
(***************************************************************************)
EXTENDS Integers, Sequences, FiniteSets, TLC

VARIABLES
    kind,                    \* "light" (AdsLight) or "switch" (AdsSwitch)
    ads_var_brightness,      \* light: a brightness variable is configured
    ads_var_rgbw_color,      \* light: a colour variable is configured
    ads_var_turn_on,         \* switch: a distinct turn-on variable is configured
    ads_var_turn_off,        \* switch: a distinct turn-off variable is configured
    color_mode,              \* light: _attr_color_mode
    supported_color_modes,   \* light: _attr_supported_color_modes
    subscriptions,           \* state keys with a registered device notification
    state_dict,              \* _state_dict: [state, brightness, rgbw_color]
    cmd,                     \* the last command: kwargs, writes issued, outcome
    rd_pc,                   \* position of the running rgbw_color read
    rd_rgbw,                 \* the read's local `rgbw`
    rd_vals,                 \* the read's r, g, b, w coerced so far
    rd_ret,                  \* what the last read returned or raised
    rd_seen                  \* samples the colour slot held during the read

vars == <<kind, ads_var_brightness, ads_var_rgbw_color, ads_var_turn_on,
          ads_var_turn_off, color_mode, supported_color_modes, subscriptions,
          state_dict, cmd, rd_pc, rd_rgbw, rd_vals, rd_ret, rd_seen>>

config_vars == <<kind, ads_var_brightness, ads_var_rgbw_color, ads_var_turn_on,
                 ads_var_turn_off, color_mode, supported_color_modes>>

read_vars == <<rd_pc, rd_rgbw, rd_vals, rd_ret, rd_seen>>

(***************************************************************************)
(* Bounds                                                                  *)
(***************************************************************************)
\* longest raw colour sample delivered to the slot
MaxSampleLen == 5
\* longest rgbw_color value supplied with a turn-on command
MaxKwLen == 5

(***************************************************************************)
(* Python values                                                           *)
(***************************************************************************)
IntE(n) == [t |-> "int", v |-> n, s |-> <<>>]
\* a finite float, v in tenths: FloatE(-15) is -1.5
FloatE(tenths) == [t |-> "float", v |-> tenths, s |-> <<>>]
InfE == [t |-> "float_inf", v |-> 0, s |-> <<>>]
NanE == [t |-> "float_nan", v |-> 0, s |-> <<>>]
NoneE == [t |-> "NoneType", v |-> 0, s |-> <<>>]
StrE(chars) == [t |-> "str", v |-> 0, s |-> chars]

Nothing == [has |-> FALSE, v |-> 0]
Some(n) == [has |-> TRUE, v |-> n]
NoSeq == [has |-> FALSE, items |-> <<>>]
SomeSeq(q) == [has |-> TRUE, items |-> q]

NoneS == [type |-> "NoneType", items |-> <<>>]
ListS(q) == [type |-> "list", items |-> q]
TupleS(q) == [type |-> "tuple", items |-> q]
\* a scalar: not a sequence at all
ScalarS == [type |-> "int", items |-> <<>>]
StrS(q) == [type |-> "str", items |-> q]

Digits == {"0", "1", "2", "3", "4", "5", "6", "7", "8", "9"}

DigitVal(c) ==
    CASE c = "0" -> 0 [] c = "1" -> 1 [] c = "2" -> 2 [] c = "3" -> 3
      [] c = "4" -> 4 [] c = "5" -> 5 [] c = "6" -> 6 [] c = "7" -> 7
      [] c = "8" -> 8 [] c = "9" -> 9

RECURSIVE LStrip(_)
LStrip(s) == IF s # <<>> /\ Head(s) = " " THEN LStrip(Tail(s)) ELSE s

RECURSIVE RStrip(_)
RStrip(s) ==
    IF s # <<>> /\ s[Len(s)] = " " THEN RStrip(SubSeq(s, 1, Len(s) - 1)) ELSE s

RECURSIVE DigitsValue(_, _)
DigitsValue(s, acc) ==
    IF s = <<>> THEN acc ELSE DigitsValue(Tail(s), 10 * acc + DigitVal(Head(s)))

\* int(str): surrounding whitespace, an optional sign, then decimal digits
ParseInt(chars) ==
    LET s == RStrip(LStrip(chars))
        signed == s # <<>> /\ Head(s) \in {"+", "-"}
        body == IF signed THEN Tail(s) ELSE s
        ok == body # <<>> /\ \A i \in 1..Len(body) : body[i] \in Digits
    IN  IF ~ok THEN [exc |-> "ValueError", v |-> 0]
        ELSE [exc |-> "",
              v |-> IF signed /\ Head(s) = "-" THEN -DigitsValue(body, 0)
                    ELSE DigitsValue(body, 0)]

\* int(x) of one element: the integer, or the exception int() raises
py_int(e) ==
    CASE e.t = "int" -> [exc |-> "", v |-> e.v]
      [] e.t = "float" ->
            [exc |-> "",
             v |-> IF e.v >= 0 THEN e.v \div 10 ELSE -((-e.v) \div 10)]
      [] e.t = "float_inf" -> [exc |-> "OverflowError", v |-> 0]
      [] e.t = "float_nan" -> [exc |-> "ValueError", v |-> 0]
      [] e.t = "str" -> ParseInt(e.s)
      [] OTHER -> [exc |-> "TypeError", v |-> 0]

\* the exceptions rgbw_color catches around the coercion
CaughtByRead == {"ValueError", "TypeError"}

clamp_hi_only(v) == IF v > 255 THEN 255 ELSE v
clamp(v) ==
    LET lo == IF 255 < v THEN 255 ELSE v      \* min(255, v)
    IN  IF 0 > lo THEN 0 ELSE lo              \* max(0, ...)

IsFourOrMore(rgbw) == rgbw.type \in {"tuple", "list"} /\ Len(rgbw.items) >= 4
\* isinstance(rgbw, (tuple, list)) and len(rgbw) == 4
IsFourSeq(rgbw) == rgbw.type \in {"tuple", "list"} /\ Len(rgbw.items) = 4

RgbwItemFromSlot(rgbw, slot, i) ==
    IF slot.type \in {"tuple", "list"} /\ Len(slot.items) = 4
    THEN slot.items[i] ELSE rgbw.items[i]
\* rgbw[i] inside the coercion: the local bound once from the slot
RgbwItem(rgbw, slot, i) == rgbw.items[i]

(***************************************************************************)
(* Input domains                                                           *)
(***************************************************************************)
\* elements a delivered colour sample may hold
Elems ==
    {IntE(-5), IntE(0), IntE(128), IntE(255), IntE(256), IntE(300),
     FloatE(-15), InfE, NoneE, StrE(<<" ", "7">>), StrE(<<"a">>)}

FourSamples ==
    {ListS(<<a, b, c, d>>) : a \in Elems, b \in Elems, c \in Elems, d \in Elems}
    \cup {TupleS(<<IntE(a), IntE(b), IntE(c), IntE(d)>>) :
             a \in {-5, 255}, b \in {0, 300}, c \in {128}, d \in {256, 7}}
    \cup {ListS(<<NanE, IntE(1), IntE(2), IntE(3)>>),
          ListS(<<StrE(<<"-", "1", "2">>), StrE(<<"3", "0", "0", " ">>),
                  StrE(<<"+", "9">>), StrE(<<"1", ".", "5">>)>>),
          ListS(<<FloatE(2559), FloatE(-9), FloatE(2560), StrE(<<>>)>>)}

WrongLenSamples ==
    {[type |-> ty, items |-> [i \in 1..n |-> e]] :
        ty \in {"list", "tuple"},
        n \in (0..MaxSampleLen) \ {4},
        e \in {IntE(0), IntE(300)}}

\* every raw sample the pure read is checked on
ReadSamples ==
    FourSamples \cup WrongLenSamples
    \cup {NoneS, ScalarS, StrS(<<StrE(<<"1">>), StrE(<<"2">>), StrE(<<"3">>)>>),
          StrS(<<StrE(<<"1">>), StrE(<<"2">>), StrE(<<"3">>), StrE(<<"4">>)>>)}

SampleA == ListS(<<IntE(10), IntE(20), IntE(30), IntE(40)>>)
SampleB == ListS(<<IntE(300), IntE(-5), IntE(128), IntE(256)>>)
SampleShort == TupleS(<<IntE(1), IntE(2), IntE(3)>>)

\* samples notified while commands and reads interleave
NotifiedSamples == {SampleA, SampleB, SampleShort}

NotifiedBrightness == {0, 200}

\* brightness values supplied with turn-on (None, or a number)
KwBrightness == {Nothing, Some(0), Some(200)}

\* rgbw_color values supplied with turn-on (None, or a sequence of integers)
KwRgbw ==
    {NoSeq, SomeSeq(<<>>)}
    \cup {SomeSeq([i \in 1..n |-> 128 * i - 129]) : n \in 3..MaxKwLen}

(***************************************************************************)
(* Construction                                                            *)
(***************************************************************************)
ColorModeBrightnessFirst(brightness_var, rgbw_var) ==
    IF brightness_var THEN "BRIGHTNESS" ELSE IF rgbw_var THEN "RGBW" ELSE "ONOFF"
\* AdsLight.__init__: the capability mode from the configured variables
ColorModeOf(brightness_var, rgbw_var) ==
    IF rgbw_var THEN "RGBW" ELSE IF brightness_var THEN "BRIGHTNESS" ELSE "ONOFF"

NoCmd ==
    [op |-> "none", brightness |-> Nothing, rgbw_color |-> NoSeq,
     writes |-> <<>>, hub |-> <<>>, outcome |-> "none"]

NoRet ==
    [outcome |-> "none", exc |-> "", kind |-> "None", val |-> <<>>, warnings |-> 0]

InitLight ==
    /\ kind = "light"
    /\ ads_var_brightness \in BOOLEAN
    /\ ads_var_rgbw_color \in BOOLEAN
    /\ ads_var_turn_on = FALSE
    /\ ads_var_turn_off = FALSE
    /\ color_mode = ColorModeOf(ads_var_brightness, ads_var_rgbw_color)
    /\ supported_color_modes = {color_mode}

InitSwitch ==
    /\ kind = "switch"
    /\ ads_var_brightness = FALSE
    /\ ads_var_rgbw_color = FALSE
    /\ ads_var_turn_on \in BOOLEAN
    /\ ads_var_turn_off \in BOOLEAN
    /\ color_mode = "n/a"
    /\ supported_color_modes = {}

InitState ==
    /\ state_dict = [state |-> "None", brightness |-> Nothing, rgbw_color |-> NoneS]
    /\ cmd = NoCmd
    /\ rd_pc = "idle"
    /\ rd_rgbw = NoneS
    /\ rd_vals = <<>>
    /\ rd_ret = NoRet
    /\ rd_seen = {}

Init ==
    /\ InitLight \/ InitSwitch
    /\ subscriptions = {}
    /\ InitState

(***************************************************************************)
(* Device notifications                                                    *)
(***************************************************************************)
\* async_added_to_hass: the state keys a notification is registered for
SubscribedKeys ==
    {"state"}
    \cup (IF kind = "light" /\ ads_var_brightness THEN {"brightness"} ELSE {})
    \cup (IF kind = "light" /\ ads_var_rgbw_color THEN {"rgbw_color"} ELSE {})

AddedToHass ==
    /\ subscriptions = {}
    /\ subscriptions' = SubscribedKeys
    /\ UNCHANGED <<config_vars, state_dict, cmd, read_vars>>

NotifyState(b) ==
    /\ "state" \in subscriptions
    /\ state_dict' = [state_dict EXCEPT !.state = IF b THEN "True" ELSE "False"]
    /\ UNCHANGED <<config_vars, subscriptions, cmd, read_vars>>

NotifyBrightness(n) ==
    /\ "brightness" \in subscriptions
    /\ state_dict' = [state_dict EXCEPT !.brightness = Some(n)]
    /\ UNCHANGED <<config_vars, subscriptions, cmd, read_vars>>

\* the callback replaces the slot's object; a running read records what it held
NotifyColor(sample) ==
    /\ "rgbw_color" \in subscriptions
    /\ state_dict' = [state_dict EXCEPT !.rgbw_color = sample]
    /\ rd_seen' = IF rd_pc \in {"check", "coerce", "clamp"}
                  THEN rd_seen \cup {sample} ELSE rd_seen
    /\ UNCHANGED <<config_vars, subscriptions, cmd, rd_pc, rd_rgbw, rd_vals, rd_ret>>

(***************************************************************************)
(* AdsLight.rgbw_color, one step per shared-memory access or exit          *)
(***************************************************************************)
ReturnNone(w) ==
    [outcome |-> "returned", exc |-> "", kind |-> "None", val |-> <<>>, warnings |-> w]

ReturnTuple(q, w) ==
    [outcome |-> "returned", exc |-> "", kind |-> "tuple", val |-> q, warnings |-> w]

Raised(exc) ==
    [outcome |-> "raised", exc |-> exc, kind |-> "None", val |-> <<>>, warnings |-> 0]

\* rgbw = self._state_dict[STATE_KEY_RGBW_COLOR]
RdLoad ==
    /\ kind = "light"
    /\ rd_pc \in {"idle", "done"}
    /\ rd_rgbw' = state_dict.rgbw_color
    /\ rd_seen' = {state_dict.rgbw_color}
    /\ rd_vals' = <<>>
    /\ rd_ret' = NoRet
    /\ rd_pc' = "check"
    /\ UNCHANGED <<config_vars, subscriptions, state_dict, cmd>>

\* the None test and the shape test on the local
RdCheck ==
    /\ rd_pc = "check"
    /\ IF rd_rgbw.type = "NoneType"
       THEN rd_pc' = "done" /\ rd_ret' = ReturnNone(0)
       ELSE IF IsFourSeq(rd_rgbw)
            THEN rd_pc' = "coerce" /\ rd_ret' = rd_ret
            ELSE rd_pc' = "done" /\ rd_ret' = ReturnNone(1)
    /\ UNCHANGED <<config_vars, subscriptions, state_dict, cmd, rd_rgbw, rd_vals, rd_seen>>

\* int(rgbw[i]) for the next channel, inside try / except (ValueError, TypeError)
RdCoerce ==
    /\ rd_pc = "coerce"
    /\ LET i == Len(rd_vals) + 1
           r == py_int(RgbwItem(rd_rgbw, state_dict.rgbw_color, i))
       IN  IF r.exc = ""
           THEN /\ rd_vals' = Append(rd_vals, r.v)
                /\ rd_pc' = IF i = 4 THEN "clamp" ELSE "coerce"
                /\ rd_ret' = rd_ret
           ELSE /\ rd_vals' = rd_vals
                /\ rd_pc' = "done"
                /\ rd_ret' = IF r.exc \in CaughtByRead THEN ReturnNone(1)
                             ELSE Raised(r.exc)
    /\ UNCHANGED <<config_vars, subscriptions, state_dict, cmd, rd_rgbw, rd_seen>>

\* the range warning, the clamp and the return
RdClamp ==
    /\ rd_pc = "clamp"
    /\ rd_ret' = ReturnTuple([i \in 1..4 |-> clamp(rd_vals[i])],
                             IF \A i \in 1..4 : 0 <= rd_vals[i] /\ rd_vals[i] <= 255
                             THEN 0 ELSE 1)
    /\ rd_pc' = "done"
    /\ UNCHANGED <<config_vars, subscriptions, state_dict, cmd, rd_rgbw, rd_vals, rd_seen>>

(***************************************************************************)
(* Commands                                                                *)
(***************************************************************************)
BoolWrite(name, b) ==
    [name |-> name, plctype |-> "PLCTYPE_BOOL", b |-> b, n |-> 0, arr |-> <<>>]

UintWrite(name, n) ==
    [name |-> name, plctype |-> "PLCTYPE_UINT", b |-> FALSE, n |-> n, arr |-> <<>>]

\* PLCTYPE_ARR_UINT(4)(*items): four c_uint16, unchecked, missing ones zero
PackArrUint4(items) ==
    [i \in 1..4 |-> IF i <= Len(items) THEN items[i] % 65536 ELSE 0]

ArrWrite(name, items) ==
    [name |-> name, plctype |-> "PLCTYPE_ARR_UINT4", b |-> FALSE, n |-> 0,
     arr |-> PackArrUint4(items)]

Min(S) == CHOOSE m \in S : \A k \in S : m <= k

\* write_by_name of the hub: whether the k-th write of a command succeeds,
\* when the hub fails the write numbered fail_at (0: it fails none)
HubOk(fail_at, k) == k # fail_at

WriteAllSwallowing(plan, fail_at) ==
    [writes |-> plan, hub |-> [k \in 1..Len(plan) |-> HubOk(fail_at, k)],
     outcome |-> "returned"]
\* the writes of a command in program order.  Nothing catches a failed
\* write: the command ends there and the failure reaches the caller.
WriteAll(plan, fail_at) ==
    LET bad == {k \in 1..Len(plan) : ~HubOk(fail_at, k)}
        n == IF bad = {} THEN Len(plan) ELSE Min(bad)
    IN  [writes |-> SubSeq(plan, 1, n),
         hub |-> [k \in 1..n |-> HubOk(fail_at, k)],
         outcome |-> IF bad = {} THEN "returned" ELSE "raised"]

BrightnessWriteDueTruthy(brightness) ==
    ads_var_brightness /\ brightness.has /\ brightness.v # 0
\* self._ads_var_brightness is not None and brightness is not None
BrightnessWriteDue(brightness) == ads_var_brightness /\ brightness.has

ColorWriteDueAnyLen(rgbw_color) == ads_var_rgbw_color /\ rgbw_color.has
\* self._ads_var_rgbw_color is not None and rgbw_color is not None, len == 4
ColorWriteDue(rgbw_color) ==
    ads_var_rgbw_color /\ rgbw_color.has /\ Len(rgbw_color.items) = 4

\* AdsLight.turn_on: the writes it issues, in order
light_turn_on_writes(brightness, rgbw_color) ==
    <<BoolWrite("ads_var", TRUE)>>
    \o (IF BrightnessWriteDue(brightness)
        THEN <<UintWrite("ads_var_brightness", brightness.v)>> ELSE <<>>)
    \o (IF ColorWriteDue(rgbw_color)
        THEN <<ArrWrite("ads_var_rgbw_color", rgbw_color.items)>> ELSE <<>>)

\* AdsLight.turn_off
light_turn_off_writes == <<BoolWrite("ads_var", FALSE)>>

\* AdsSwitch.turn_on
switch_turn_on_writes ==
    IF ads_var_turn_on THEN <<BoolWrite("ads_var_turn_on", TRUE)>>
    ELSE <<BoolWrite("ads_var", TRUE)>>

switch_turn_off_writes_level ==
    IF ads_var_turn_off THEN <<BoolWrite("ads_var_turn_off", FALSE)>>
    ELSE <<BoolWrite("ads_var", FALSE)>>
\* AdsSwitch.turn_off
switch_turn_off_writes ==
    IF ads_var_turn_off THEN <<BoolWrite("ads_var_turn_off", TRUE)>>
    ELSE <<BoolWrite("ads_var", FALSE)>>

state_after_command_optimistic(sd, op) ==
    [sd EXCEPT !.state = IF op = "turn_on" THEN "True" ELSE "False"]
\* _state_dict once a command has run: no command body assigns to it
state_after_command(sd, op) == sd

Command(op, brightness, rgbw_color, done) ==
    [op |-> op, brightness |-> brightness, rgbw_color |-> rgbw_color,
     writes |-> done.writes, hub |-> done.hub, outcome |-> done.outcome]

LightTurnOn(brightness, rgbw_color) ==
    /\ kind = "light"
    /\ LET plan == light_turn_on_writes(brightness, rgbw_color)
       IN  \E fail_at \in 0..Len(plan) :
               cmd' = Command("turn_on", brightness, rgbw_color, WriteAll(plan, fail_at))
    /\ state_dict' = state_after_command(state_dict, "turn_on")
    /\ UNCHANGED <<config_vars, subscriptions, read_vars>>

LightTurnOff ==
    /\ kind = "light"
    /\ LET plan == light_turn_off_writes
       IN  \E fail_at \in 0..Len(plan) :
               cmd' = Command("turn_off", Nothing, NoSeq, WriteAll(plan, fail_at))
    /\ state_dict' = state_after_command(state_dict, "turn_off")
    /\ UNCHANGED <<config_vars, subscriptions, read_vars>>

SwitchTurnOn ==
    /\ kind = "switch"
    /\ LET plan == switch_turn_on_writes
       IN  \E fail_at \in 0..Len(plan) :
               cmd' = Command("turn_on", Nothing, NoSeq, WriteAll(plan, fail_at))
    /\ state_dict' = state_after_command(state_dict, "turn_on")
    /\ UNCHANGED <<config_vars, subscriptions, read_vars>>

SwitchTurnOff ==
    /\ kind = "switch"
    /\ LET plan == switch_turn_off_writes
       IN  \E fail_at \in 0..Len(plan) :
               cmd' = Command("turn_off", Nothing, NoSeq, WriteAll(plan, fail_at))
    /\ state_dict' = state_after_command(state_dict, "turn_off")
    /\ UNCHANGED <<config_vars, subscriptions, read_vars>>

(***************************************************************************)
(* Specifications                                                          *)
(***************************************************************************)
Next ==
    \/ AddedToHass
    \/ \E b \in BOOLEAN : NotifyState(b)
    \/ \E n \in NotifiedBrightness : NotifyBrightness(n)
    \/ \E sample \in NotifiedSamples : NotifyColor(sample)
    \/ RdLoad
    \/ RdCheck
    \/ RdCoerce
    \/ RdClamp
    \/ \E brightness \in KwBrightness, rgbw_color \in KwRgbw :
           LightTurnOn(brightness, rgbw_color)
    \/ LightTurnOff
    \/ SwitchTurnOn
    \/ SwitchTurnOff

Spec == Init /\ [][Next]_vars

\* the colour read as a function of the sample in the slot
InitRead ==
    /\ kind = "light"
    /\ ads_var_brightness = FALSE
    /\ ads_var_rgbw_color = TRUE
    /\ ads_var_turn_on = FALSE
    /\ ads_var_turn_off = FALSE
    /\ color_mode = ColorModeOf(ads_var_brightness, ads_var_rgbw_color)
    /\ supported_color_modes = {color_mode}
    /\ subscriptions = SubscribedKeys
    /\ state_dict \in {[state |-> "None", brightness |-> Nothing, rgbw_color |-> sample] :
                          sample \in ReadSamples}
    /\ cmd = NoCmd
    /\ rd_pc = "idle"
    /\ rd_rgbw = NoneS
    /\ rd_vals = <<>>
    /\ rd_ret = NoRet
    /\ rd_seen = {}

NextRead == RdLoad \/ RdCheck \/ RdCoerce \/ RdClamp

SpecRead == InitRead /\ [][NextRead]_vars

(***************************************************************************)
(* Properties                                                              *)
(***************************************************************************)
ReadDone == rd_pc = "done"

Slot == state_dict.rgbw_color

SeqTypes == {"list", "tuple", "str"}

IsListOrTuple4(sample) == sample.type \in {"list", "tuple"} /\ Len(sample.items) = 4

ReturnedAbsent == rd_ret.outcome = "returned" /\ rd_ret.kind = "None"

\* C1: a list or tuple of exactly 4 integers reads as the 4-tuple of its
\* elements, each limited to 0..255; values already in range are unchanged
\* and an out-of-range sample is clamped, not discarded.
C1_ReadClampsIntegers ==
    (ReadDone /\ IsListOrTuple4(Slot) /\ \A i \in 1..4 : Slot.items[i].t = "int")
    => /\ rd_ret.outcome = "returned"
       /\ rd_ret.kind = "tuple"
       /\ Len(rd_ret.val) = 4
       /\ \A i \in 1..4 :
             LET x == Slot.items[i].v
             IN  rd_ret.val[i] = IF x < 0 THEN 0 ELSE IF x > 255 THEN 255 ELSE x

C1_Witness ==
    /\ ReadDone
    /\ Slot = ListS(<<IntE(300), IntE(-5), IntE(128), IntE(256)>>)
    /\ rd_ret.kind = "tuple"
    /\ rd_ret.val = <<255, 0, 128, 255>>

\* C2: a 4-element sample with at least one element that cannot be coerced
\* to an integer reads as absent with one warning, and the read never raises.
C2_UncoercibleReadsAbsent ==
    (ReadDone /\ IsListOrTuple4(Slot)
       /\ \E i \in 1..4 : py_int(Slot.items[i]).exc # "")
    => ReturnedAbsent /\ rd_ret.warnings = 1

\* C3: a sample that is present but is not a 4-element sequence reads as
\* absent with one warning and the read does not raise; with no sample
\* received the read returns absent.
C3_MalformedShapeReadsAbsent ==
    ReadDone =>
       /\ (Slot.type # "NoneType"
             /\ ~(Slot.type \in SeqTypes /\ Len(Slot.items) = 4))
          => (ReturnedAbsent /\ rd_ret.warnings = 1)
       /\ Slot.type = "NoneType" => ReturnedAbsent

C3_Witness ==
    /\ ReadDone
    /\ Slot.type = "tuple"
    /\ Len(Slot.items) = 5
    /\ ReturnedAbsent
    /\ rd_ret.warnings = 1

LightTurnedOn == kind = "light" /\ cmd.op = "turn_on"

StatusOn == BoolWrite("ads_var", TRUE)

\* C4: light turn-on always issues status=true first; with no colour value
\* supplied a command that returns issued exactly one further write,
\* brightness=<value>, iff a brightness variable is configured and a
\* brightness value was supplied, whatever the capability mode.
C4_TurnOnStatusThenBrightness ==
    LightTurnedOn =>
       /\ Len(cmd.writes) >= 1
       /\ cmd.writes[1] = StatusOn
       /\ (~cmd.rgbw_color.has /\ cmd.outcome = "returned")
          => cmd.writes =
                IF ads_var_brightness /\ cmd.brightness.has
                THEN <<StatusOn, UintWrite("ads_var_brightness", cmd.brightness.v)>>
                ELSE <<StatusOn>>

C4_Witness ==
    /\ LightTurnedOn
    /\ color_mode = "RGBW"
    /\ ads_var_brightness
    /\ cmd.brightness = Some(0)
    /\ ~cmd.rgbw_color.has
    /\ cmd.outcome = "returned"
    /\ Len(cmd.writes) = 2

HasColorWrite ==
    \E k \in 1..Len(cmd.writes) : cmd.writes[k].name = "ads_var_rgbw_color"

ColorSupplied4 ==
    ads_var_rgbw_color /\ cmd.rgbw_color.has /\ Len(cmd.rgbw_color.items) = 4

\* C5: with a colour variable configured and a supplied RGBW value whose
\* length is not 4, turn-on issues no colour write, raises nothing of its own
\* and still issues status=true; a colour write is issued only when the
\* variable is configured and the value has 4 elements, and a command that
\* returns has issued it whenever that is so.
C5_ColorWriteOnlyForFour ==
    LightTurnedOn =>
       /\ (ads_var_rgbw_color /\ cmd.rgbw_color.has /\ Len(cmd.rgbw_color.items) # 4)
          => /\ ~HasColorWrite
             /\ cmd.writes[1] = StatusOn
             /\ cmd.outcome = "raised" => ~cmd.hub[Len(cmd.hub)]
       /\ HasColorWrite => ColorSupplied4
       /\ (ColorSupplied4 /\ cmd.outcome = "returned") => HasColorWrite

C5_Witness ==
    /\ LightTurnedOn
    /\ ads_var_rgbw_color
    /\ cmd.rgbw_color.has
    /\ Len(cmd.rgbw_color.items) = 3
    /\ cmd.outcome = "returned"
    /\ cmd.writes = <<StatusOn>>

\* C6: every switch command issues exactly one write: turn-off writes true to
\* the turn-off variable when one is configured and false to the status
\* variable otherwise; turn-on writes true to the turn-on variable when one is
\* configured and to the status variable otherwise.
C6_SwitchOneWrite ==
    (kind = "switch" /\ cmd.op # "none") =>
       /\ Len(cmd.writes) = 1
       /\ cmd.op = "turn_off" =>
             cmd.writes[1] = IF ads_var_turn_off
                             THEN BoolWrite("ads_var_turn_off", TRUE)
                             ELSE BoolWrite("ads_var", FALSE)
       /\ cmd.op = "turn_on" =>
             cmd.writes[1] = IF ads_var_turn_on
                             THEN BoolWrite("ads_var_turn_on", TRUE)
                             ELSE BoolWrite("ads_var", TRUE)

C6_Witness ==
    /\ kind = "switch"
    /\ ads_var_turn_off
    /\ cmd.op = "turn_off"
    /\ cmd.writes = <<BoolWrite("ads_var_turn_off", TRUE)>>

ModeAsConfigured ==
    kind = "light" =>
       /\ color_mode \in {"RGBW", "BRIGHTNESS", "ONOFF"}
       /\ supported_color_modes = {color_mode}
       /\ color_mode = "RGBW" <=> ads_var_rgbw_color
       /\ color_mode = "BRIGHTNESS" <=> (ads_var_brightness /\ ~ads_var_rgbw_color)
       /\ color_mode = "ONOFF" <=> (~ads_var_brightness /\ ~ads_var_rgbw_color)

\* C7: a light has exactly one capability mode, RGBW if a colour variable is
\* configured, else brightness if a brightness variable is, else on/off-only,
\* and no notification, read or command ever changes it.
C7_ModeFixedAtConstruction ==
    /\ []ModeAsConfigured
    /\ [][/\ color_mode' = color_mode
          /\ supported_color_modes' = supported_color_modes]_vars

C7_Witness ==
    /\ kind = "light"
    /\ ads_var_brightness
    /\ ads_var_rgbw_color
    /\ color_mode = "RGBW"
    /\ cmd.op = "turn_on"
    /\ Len(cmd.writes) = 3
    /\ ReadDone
    /\ state_dict.brightness.has

\* the read of one sample taken as a whole
ReadOf(sample) ==
    IF sample.type = "NoneType" THEN ReturnNone(0)
    ELSE IF ~IsListOrTuple4(sample) THEN ReturnNone(1)
    ELSE LET r == [i \in 1..4 |-> py_int(sample.items[i])]
             bad == {i \in 1..4 : r[i].exc # ""}
         IN  IF bad # {}
             THEN IF r[Min(bad)].exc \in {"ValueError", "TypeError"}
                  THEN ReturnNone(1) ELSE Raised(r[Min(bad)].exc)
             ELSE ReturnTuple(
                     [i \in 1..4 |-> IF r[i].v < 0 THEN 0
                                     ELSE IF r[i].v > 255 THEN 255 ELSE r[i].v],
                     IF \A i \in 1..4 : r[i].v \in 0..255 THEN 0 ELSE 1)

\* C8: a read that colour notifications interleave with returns the result of
\* one sample the slot held during the read, never a mix of two samples.
C8_ReadIsOfOneSample ==
    ReadDone => \E sample \in rd_seen : rd_ret = ReadOf(sample)

C8_Witness ==
    /\ ReadDone
    /\ rd_rgbw = SampleA
    /\ SampleB \in rd_seen
    /\ Slot = SampleB
    /\ rd_ret.val = <<10, 20, 30, 40>>

\* C9: no command changes the on/off, brightness or colour slot; light
\* turn-off issues exactly the one write status=false; and the brightness slot
\* stays absent on a light with no brightness variable configured.
C9_CommandsLeaveSlots ==
    /\ [][cmd' # cmd => state_dict' = state_dict]_vars
    /\ []((kind = "light" /\ cmd.op = "turn_off")
            => cmd.writes = <<BoolWrite("ads_var", FALSE)>>)
    /\ []((kind = "light" /\ ~ads_var_brightness) => ~state_dict.brightness.has)

C9_Witness ==
    /\ kind = "light"
    /\ cmd.op = "turn_off"
    /\ cmd.outcome = "returned"
    /\ state_dict.state = "True"
    /\ state_dict.brightness = Some(200)
    /\ Slot = SampleA

\* the writes a light turn-on issues when no write fails
TurnOnWritesInOrder ==
    <<StatusOn>>
    \o (IF ads_var_brightness /\ cmd.brightness.has
        THEN <<UintWrite("ads_var_brightness", cmd.brightness.v)>> ELSE <<>>)
    \o (IF ColorSupplied4
        THEN <<ArrWrite("ads_var_rgbw_color", cmd.rgbw_color.items)>> ELSE <<>>)

\* C10: a failed write ends the command: the failure reaches the caller, the
\* failed write is the last one issued and is not repeated, and the writes
\* issued are those that precede it in the order status, brightness, colour.
C10_WriteFailurePropagates ==
    cmd.op # "none" =>
       /\ Len(cmd.hub) = Len(cmd.writes)
       /\ \A k \in 1..Len(cmd.writes) :
             ~cmd.hub[k] => (cmd.outcome = "raised" /\ k = Len(cmd.writes))
       /\ cmd.outcome = "raised" => ~cmd.hub[Len(cmd.hub)]
       /\ LightTurnedOn =>
             /\ Len(cmd.writes) <= Len(TurnOnWritesInOrder)
             /\ cmd.writes = SubSeq(TurnOnWritesInOrder, 1, Len(cmd.writes))
             /\ cmd.outcome = "returned" => cmd.writes = TurnOnWritesInOrder

C10_Witness ==
    /\ LightTurnedOn
    /\ cmd.outcome = "raised"
    /\ Len(cmd.writes) = 3
    /\ cmd.hub = <<TRUE, TRUE, FALSE>>
    /\ cmd.writes[3].name = "ads_var_rgbw_color"

====
